---- MODULE Spec2Model ----
(***************************************************************************)
(* Model of app.py: the SWOT diagnostic of an accounting firm.             *)
(*                                                                         *)
(*   swot_from_profile : ClientProfile -> SWOT classification              *)
(*   detect_needs      : ClientProfile x SWOT -> deduplicated Need list    *)
(*   e-mail block      : edited need table x recipients -> e-mail drafts   *)
(*                                                                         *)
(* String literals are the source's, written in ASCII (accents dropped,    *)
(* "<=" for the less-or-equal sign): the program only compares them.       *)
(***************************************************************************)
EXTENDS Naturals, Sequences, FiniteSets

(***************************************************************************)
(* Catalogues & constantes (app.py 21-67)                                  *)
(***************************************************************************)
SECTEURS ==
    << "BTP", "Commerce", "Services", "Industrie", "Agricole",
       "Professions liberales", "E-commerce", "Sante", "Tech/SaaS", "Autre" >>

DIGITAL ==
    << "Pas informatique", "Informatique rudimentaire", "Informatique avancee" >>

TAILLE == << "0 salarie", "1-10", "11-49", "50-249", "250+" >>

IMPACT_ENV == << "Faible/Non", "Moyenne", "Importante" >>

HORIZON_RETRAITE == << "Loin (> 5 ans)", "A 5 ans", "< 2 ans" >>

EXPO_INTERNATIONAL == << "Aucune", "Occasionnelle", "Reguliere/Structuree" >>

DEPENDANCE_CLIENT == << "Faible (<20%)", "Moyenne (20-40%)", "Forte (>40%)" >>

CROISSANCE == << "En baisse", "Stable", "En croissance" >>

MARGE == << "Faible", "Correcte", "Confortable" >>

SERVICE_KEYS ==
    << "social", "fiscal", "patrimonial", "rse", "eco_strat", "gestion",
       "digital", "international", "btp" >>

SERVICES ==
    [ social        |-> "Service Paie & RH",
      fiscal        |-> "Pole Fiscal",
      patrimonial   |-> "Pole Conseil Patrimonial",
      rse           |-> "Pole RSE / CSRD",
      eco_strat     |-> "Pole Conseil Eco & Strategie",
      gestion       |-> "Pole Gestion / Controle de gestion",
      digital       |-> "Pole Digitalisation",
      international |-> "Pole International",
      btp           |-> "Pole Secteur BTP" ]

DEFAULT_RECIPIENTS ==
    [ social        |-> "service-paie@cabinet.com",
      fiscal        |-> "pole-fiscal@cabinet.com",
      patrimonial   |-> "conseil-patrimonial@cabinet.com",
      rse           |-> "rse@cabinet.com",
      eco_strat     |-> "eco-strategie@cabinet.com",
      gestion       |-> "controle-gestion@cabinet.com",
      digital       |-> "digital@cabinet.com",
      international |-> "international@cabinet.com",
      btp           |-> "btp@cabinet.com" ]

PRIORITES == << "Haute", "Moyenne", "Basse" >>

ECHEANCES == << "Immediat (<= 3 mois)", "6-12 mois", "> 12 mois" >>

Range(s) == { s[i] : i \in DOMAIN s }

(***************************************************************************)
(* Helpers (app.py 110-120): a tagged observation.                         *)
(***************************************************************************)
strength(txt) == [type |-> "Force", texte |-> txt]

weakness(txt) == [type |-> "Faiblesse", texte |-> txt]

opportunity(txt) == [type |-> "Opportunite", texte |-> txt]

threat(txt) == [type |-> "Menace", texte |-> txt]

\* The observation texts of swot_from_profile.
T_DIGITAL_AVANCEE == "Digitalisation avancee (integrations possibles)"
T_REPORTING_OK == "Reporting financier mensuel deja en place"
T_MARGE_CONFORTABLE == "Marge confortable"
T_CROISSANCE == "Croissance du CA"
T_DIGITAL_FAIBLE == "Maturite digitale faible (risque d'erreurs/couts)"
T_SANS_REPORTING == "Absence de reporting/indicateurs reguliers"
T_MARGE_FAIBLE == "Marge insuffisante / prix de revient non maitrise"
T_TRESORERIE == "Tresorerie tendue / pas de previsionnel"
T_TRANSMISSION == "Preparer la transmission / retraite dirigeant"
T_PATRIMOINE == "Optimisation patrimoniale (holding/SCI/PEA-PME, etc.)"
T_RSE == "Valorisation via la demarche RSE / CSRD adaptee"
T_EXPORT == "Developpement export / structuration internationale"
T_ENVIRONNEMENT == "Exposition reglementaire environnementale elevee"
T_DEPENDANCE == "Dependance a un client majeur"
T_JURIDIQUE == "Litiges / risques juridiques non traites"
T_SOCIAL == "Obligations sociales renforcees sans structuration RH"
T_BTP == "Complexite BTP (retenues, situations, DGD)"
T_MARKETPLACE == "TVA plateformes / marketplace (OSS/IOSS)"

VARIABLES
    profile,     \* the ClientProfile of the current run (app.py 330-352)
    swot,        \* swot = swot_from_profile(profile)     (app.py 358)
    needs,       \* needs = detect_needs(profile, swot)   (app.py 394)
    pc,          \* position of the script
    unique,      \* the list `unique` of the deduplication (app.py 241)
    refiltered,  \* the deduplication run again on `unique`
    first,       \* history: the profile and the results of the first run
    runs,        \* number of diagnostic runs so far
    recipients,  \* sidebar: department key -> e-mail address (app.py 326-328)
    edited,      \* the rows of the need table after the editor (app.py 397)
    emails,      \* the e-mail drafts (app.py 450-461)
    archive      \* the file names of the .zip, or NoArchive (app.py 464)

vars ==
    << profile, swot, needs, pc, unique, refiltered, first, runs,
       recipients, edited, emails, archive >>

EmptySwot ==
    [Forces |-> << >>, Faiblesses |-> << >>, Opportunites |-> << >>, Menaces |-> << >>]

\* Mutant of AppendIf: list.insert(0, x) instead of list.append(x).
InsertFrontIf(cond, list, x) == IF cond THEN << x >> \o list ELSE list

\* list.append under an if
AppendIf(cond, list, x) == IF cond THEN Append(list, x) ELSE list

(***************************************************************************)
(* swot_from_profile (app.py 122-174).  classify is its body run on the    *)
(* four lists F, fbl, O, M; swot_from_profile creates them empty on every  *)
(* call (lines 123-126).                                                   *)
(***************************************************************************)
classify(F0, fbl0, O0, M0, p) ==
    LET F1 == AppendIf(p.digital = "Informatique avancee", F0, strength(T_DIGITAL_AVANCEE))
        F2 == AppendIf(p.reporting_mensuel, F1, strength(T_REPORTING_OK))
        F3 == AppendIf(p.marge = "Confortable", F2, strength(T_MARGE_CONFORTABLE))
        F4 == AppendIf(p.croissance = "En croissance", F3, strength(T_CROISSANCE))
        \* Faiblesses
        fbl1 == AppendIf(p.digital = "Pas informatique", fbl0, weakness(T_DIGITAL_FAIBLE))
        fbl2 == AppendIf(~p.reporting_mensuel, fbl1, weakness(T_SANS_REPORTING))
        fbl3 == AppendIf(p.marge = "Faible", fbl2, weakness(T_MARGE_FAIBLE))
        fbl4 == AppendIf(p.tresorerie_tendue, fbl3, weakness(T_TRESORERIE))
        \* Opportunites
        O1 == AppendIf(p.proche_retraite \in {"A 5 ans", "< 2 ans"}, O0,
                       opportunity(T_TRANSMISSION))
        O2 == AppendIf(p.patrimoine_dirigeant_important, O1, opportunity(T_PATRIMOINE))
        O3 == AppendIf(p.rse_sensible, O2, opportunity(T_RSE))
        O4 == AppendIf(p.exposition_internationale \in {"Occasionnelle", "Reguliere/Structuree"},
                       O3, opportunity(T_EXPORT))
        \* Menaces
        M1 == AppendIf(p.impact_env = "Importante", M0, threat(T_ENVIRONNEMENT))
        M2 == AppendIf(p.dependance_client = "Forte (>40%)", M1, threat(T_DEPENDANCE))
        M3 == AppendIf(p.risques_juridiques, M2, threat(T_JURIDIQUE))
        M4 == AppendIf(p.taille \in {"11-49", "50-249", "250+"} /\ ~p.presence_cadres,
                       M3, threat(T_SOCIAL))
        \* Secteur/Specifiques
        M5 == AppendIf(p.secteur = "BTP" \/ p.btp_specifique, M4, threat(T_BTP))
        M6 == AppendIf(p.ecommerce_plateformes, M5, threat(T_MARKETPLACE))
    IN  [Forces |-> F4, Faiblesses |-> fbl4, Opportunites |-> O4, Menaces |-> M6]

\* Mutant of swot_from_profile: the four lists outlive the call (module-level
\* lists, or mutable default arguments) and still hold the previous run's
\* observations.
swot_from_profile_shared(p) ==
    classify(swot.Forces, swot.Faiblesses, swot.Opportunites, swot.Menaces, p)

swot_from_profile(p) == classify(<< >>, << >>, << >>, << >>, p)

(***************************************************************************)
(* Need (app.py 97-104) and detect_needs (app.py 176-248).                 *)
(***************************************************************************)
\* Mutant of add: the Need carries the department key, not its display name.
add_key(list, besoin, service_key, priorite, echeance, impact, justif) ==
    Append(list, [ besoin        |-> besoin,
                   service       |-> service_key,
                   priorite      |-> priorite,
                   echeance      |-> echeance,
                   impact        |-> impact,
                   justification |-> justif ])

\* add (app.py 179-187): the nested helper appends one Need whose service
\* is the display name of service_key.
add(list, besoin, service_key, priorite, echeance, impact, justif) ==
    Append(list, [ besoin        |-> besoin,
                   service       |-> SERVICES[service_key],
                   priorite      |-> priorite,
                   echeance      |-> echeance,
                   impact        |-> impact,
                   justification |-> justif ])

\* [x["texte"] for x in swot.get(...)] (app.py 190-191)
textes(obs) == { obs[i].texte : i \in DOMAIN obs }

\* Python's `sub in txt` on strings (app.py 212-218), over the strings of the
\* model: every string contains itself, and each needle of detect_needs is
\* the beginning of exactly one observation text.
N_TRANSMISSION == "Preparer la transmission / retraite dirigeant"
N_PATRIMOINE == "Optimisation patrimoniale"
N_EXPORT == "Developpement export"
N_RSE == "Valorisation via la demarche RSE"

SUBSTRING_OF ==
    { << N_PATRIMOINE, T_PATRIMOINE >>, << N_EXPORT, T_EXPORT >>, << N_RSE, T_RSE >> }

Contains(sub, txt) == sub = txt \/ << sub, txt >> \in SUBSTRING_OF

\* any(sub in x["texte"] for x in obs)
AnyContains(sub, obs) == \E i \in DOMAIN obs : Contains(sub, obs[i].texte)

\* The rules of detect_needs, run on the list `needs`, in four groups.
\* Mutant of rules_faiblesses: the cash rule runs before the pricing rule.
rules_faiblesses_swapped(needs0, p, sw) ==
    LET fb_texts == textes(sw.Faiblesses)
        n1 == IF T_DIGITAL_FAIBLE \in fb_texts
              THEN add(needs0, "Cartographie & plan de digitalisation", "digital",
                       "Moyenne", "6-12 mois", 3, "Digitalisation faible detectee")
              ELSE needs0
        n2 == IF T_SANS_REPORTING \in fb_texts
              THEN add(n1, "Mise en place de tableaux de bord mensuels", "gestion",
                       "Haute", "Immediat (<= 3 mois)", 4, "Absence de pilotage mensuel")
              ELSE n1
        n3 == IF T_TRESORERIE \in fb_texts
              THEN add(n2, "Previsionnel & cash management", "gestion",
                       "Haute", "Immediat (<= 3 mois)", 5, "Tension de tresorerie")
              ELSE n2
        n4 == IF T_MARGE_FAIBLE \in fb_texts
              THEN add(n3, "Etude prix de revient & politique de pricing", "eco_strat",
                       "Haute", "Immediat (<= 3 mois)", 5, "Marge insuffisante")
              ELSE n3
    IN  n4

\* Regles issues des faiblesses (app.py 193-200)
rules_faiblesses(needs0, p, sw) ==
    LET fb_texts == textes(sw.Faiblesses)
        n1 == IF T_DIGITAL_FAIBLE \in fb_texts
              THEN add(needs0, "Cartographie & plan de digitalisation", "digital",
                       "Moyenne", "6-12 mois", 3, "Digitalisation faible detectee")
              ELSE needs0
        n2 == IF T_SANS_REPORTING \in fb_texts
              THEN add(n1, "Mise en place de tableaux de bord mensuels", "gestion",
                       "Haute", "Immediat (<= 3 mois)", 4, "Absence de pilotage mensuel")
              ELSE n1
        n3 == IF T_MARGE_FAIBLE \in fb_texts
              THEN add(n2, "Etude prix de revient & politique de pricing", "eco_strat",
                       "Haute", "Immediat (<= 3 mois)", 5, "Marge insuffisante")
              ELSE n2
        n4 == IF T_TRESORERIE \in fb_texts
              THEN add(n3, "Previsionnel & cash management", "gestion",
                       "Haute", "Immediat (<= 3 mois)", 5, "Tension de tresorerie")
              ELSE n3
    IN  n4

\* Mutant of rules_menaces: the diversification rule also fires on a medium
\* client dependence, read from the profile.
rules_menaces_moyenne(needs0, p, sw) ==
    LET m_texts == textes(sw.Menaces)
        n5 == IF T_ENVIRONNEMENT \in m_texts \/ p.rse_sensible
              THEN add(needs0, "Diagnostic RSE & plan d'actions", "rse",
                       "Moyenne", "6-12 mois", 3, "Enjeux RSE / environnementaux")
              ELSE needs0
        n6 == IF T_DEPENDANCE \in m_texts \/ p.dependance_client = "Moyenne (20-40%)"
              THEN add(n5, "Plan de diversification commerciale", "eco_strat",
                       "Moyenne", "6-12 mois", 4, "Risque de dependance client")
              ELSE n5
        n7 == IF T_BTP \in m_texts
              THEN add(n6, "Mise en place suivi chantiers / DGD", "btp",
                       "Moyenne", "6-12 mois", 3, "Specificites BTP")
              ELSE n6
        n8 == IF T_MARKETPLACE \in m_texts
              THEN add(n7, "Revue TVA (OSS/IOSS) & procedures", "international",
                       "Haute", "Immediat (<= 3 mois)", 4, "Risque TVA marketplaces")
              ELSE n7
    IN  n8

\* Mutant of rules_menaces: one more rule, on the legal-risk threat.
rules_menaces_juridique(needs0, p, sw) ==
    LET m_texts == textes(sw.Menaces)
        n5 == IF T_ENVIRONNEMENT \in m_texts \/ p.rse_sensible
              THEN add(needs0, "Diagnostic RSE & plan d'actions", "rse",
                       "Moyenne", "6-12 mois", 3, "Enjeux RSE / environnementaux")
              ELSE needs0
        n6 == IF T_DEPENDANCE \in m_texts
              THEN add(n5, "Plan de diversification commerciale", "eco_strat",
                       "Moyenne", "6-12 mois", 4, "Risque de dependance client")
              ELSE n5
        n7 == IF T_BTP \in m_texts
              THEN add(n6, "Mise en place suivi chantiers / DGD", "btp",
                       "Moyenne", "6-12 mois", 3, "Specificites BTP")
              ELSE n6
        n8 == IF T_MARKETPLACE \in m_texts
              THEN add(n7, "Revue TVA (OSS/IOSS) & procedures", "international",
                       "Haute", "Immediat (<= 3 mois)", 4, "Risque TVA marketplaces")
              ELSE n7
        n8j == IF T_JURIDIQUE \in m_texts
               THEN add(n8, "Audit juridique & gestion des litiges", "fiscal",
                        "Haute", "Immediat (<= 3 mois)", 4, "Risques juridiques")
               ELSE n8
    IN  n8j

\* Regles issues des menaces (app.py 202-209)
rules_menaces(needs0, p, sw) ==
    LET m_texts == textes(sw.Menaces)
        n5 == IF T_ENVIRONNEMENT \in m_texts \/ p.rse_sensible
              THEN add(needs0, "Diagnostic RSE & plan d'actions", "rse",
                       "Moyenne", "6-12 mois", 3, "Enjeux RSE / environnementaux")
              ELSE needs0
        n6 == IF T_DEPENDANCE \in m_texts
              THEN add(n5, "Plan de diversification commerciale", "eco_strat",
                       "Moyenne", "6-12 mois", 4, "Risque de dependance client")
              ELSE n5
        n7 == IF T_BTP \in m_texts
              THEN add(n6, "Mise en place suivi chantiers / DGD", "btp",
                       "Moyenne", "6-12 mois", 3, "Specificites BTP")
              ELSE n6
        n8 == IF T_MARKETPLACE \in m_texts
              THEN add(n7, "Revue TVA (OSS/IOSS) & procedures", "international",
                       "Haute", "Immediat (<= 3 mois)", 4, "Risque TVA marketplaces")
              ELSE n7
    IN  n8

\* Mutant of rules_opportunites: the patrimonial rule is a loop over the
\* opportunities, which adds its need once for each matching observation.
rules_opportunites_each(needs0, p, sw) ==
    LET n9 == IF AnyContains(N_TRANSMISSION, sw.Opportunites)
              THEN add(needs0, "Bilan retraite & pre-etude de transmission", "patrimonial",
                       "Moyenne", "6-12 mois", 3, "Fenetre d'opportunite transmission")
              ELSE needs0
        hits == SelectSeq(sw.Opportunites, LAMBDA x : Contains(N_PATRIMOINE, x.texte))
        n10 == n9 \o [ i \in 1..Len(hits) |->
                         add(<< >>, "Bilan patrimonial dirigeant", "patrimonial",
                             "Moyenne", "6-12 mois", 3, "Patrimoine dirigeant important")[1] ]
        n11 == IF AnyContains(N_EXPORT, sw.Opportunites)
               THEN add(n10, "Diagnostic international (TVA / flux / implantations)",
                        "international", "Moyenne", "6-12 mois", 3, "Opportunite export")
               ELSE n10
        n12 == IF AnyContains(N_RSE, sw.Opportunites)
               THEN add(n11, "Reporting extra-financier simplifie", "rse",
                        "Basse", "> 12 mois", 2, "Creer de la valeur via RSE")
               ELSE n11
    IN  n12

\* Opportunites (app.py 211-219)
rules_opportunites(needs0, p, sw) ==
    LET n9 == IF AnyContains(N_TRANSMISSION, sw.Opportunites)
              THEN add(needs0, "Bilan retraite & pre-etude de transmission", "patrimonial",
                       "Moyenne", "6-12 mois", 3, "Fenetre d'opportunite transmission")
              ELSE needs0
        n10 == IF AnyContains(N_PATRIMOINE, sw.Opportunites)
               THEN add(n9, "Bilan patrimonial dirigeant", "patrimonial",
                        "Moyenne", "6-12 mois", 3, "Patrimoine dirigeant important")
               ELSE n9
        n11 == IF AnyContains(N_EXPORT, sw.Opportunites)
               THEN add(n10, "Diagnostic international (TVA / flux / implantations)",
                        "international", "Moyenne", "6-12 mois", 3, "Opportunite export")
               ELSE n10
        n12 == IF AnyContains(N_RSE, sw.Opportunites)
               THEN add(n11, "Reporting extra-financier simplifie", "rse",
                        "Basse", "> 12 mois", 2, "Creer de la valeur via RSE")
               ELSE n11
    IN  n12

\* Mutant of rules_social: the `else` is lost, the second need is added for
\* every company of 11 employees or more.
rules_social_no_else(needs0, p) ==
    IF p.taille \in {"11-49", "50-249", "250+"}
    THEN LET n13 == IF ~p.presence_cadres
                    THEN add(needs0, "Audit social & mise en conformite (CSE, DUERP...)",
                             "social", "Haute", "Immediat (<= 3 mois)", 4,
                             "Obligations sociales renforcees")
                    ELSE needs0
         IN  add(n13, "Optimisation processus paie/RH", "social",
                 "Moyenne", "6-12 mois", 3, "Effectif significatif")
    ELSE needs0

\* Social / RH (app.py 221-226)
rules_social(needs0, p) ==
    IF p.taille \in {"11-49", "50-249", "250+"}
    THEN IF ~p.presence_cadres
         THEN add(needs0, "Audit social & mise en conformite (CSE, DUERP...)", "social",
                  "Haute", "Immediat (<= 3 mois)", 4, "Obligations sociales renforcees")
         ELSE add(needs0, "Optimisation processus paie/RH", "social",
                  "Moyenne", "6-12 mois", 3, "Effectif significatif")
    ELSE needs0

\* Fiscal, Gestion, Eco/Strategie (app.py 228-238)
rules_profil(needs0, p) ==
    LET n14 == IF p.ecommerce_plateformes
                  \/ p.exposition_internationale \in {"Occasionnelle", "Reguliere/Structuree"}
               THEN add(needs0, "Revue fiscale ciblee (TVA, prix de transfert simplifies)",
                        "fiscal", "Moyenne", "6-12 mois", 3, "Flux e-commerce/internationaux")
               ELSE needs0
        n15 == IF (p.nb_banques > 1 /\ ~p.reporting_mensuel) \/ p.tresorerie_tendue
               THEN add(n14, "Centralisation banques & rapprochements automatiques", "digital",
                        "Moyenne", "6-12 mois", 3, "Multiples banques sans process outille")
               ELSE n14
        n16 == IF p.croissance \in {"En baisse", "Stable"} /\ p.marge # "Confortable"
               THEN add(n15, "Diagnostic strategique (marche/offre/organisation)", "eco_strat",
                        "Moyenne", "6-12 mois", 4, "Performance perfectible")
               ELSE n15
    IN  n16

\* Mutant of rules: the opportunity rules run before the threat rules.
rules_reordered(needs0, p, sw) ==
    rules_profil(
        rules_social(
            rules_menaces(
                rules_opportunites(
                    rules_faiblesses(needs0, p, sw), p, sw), p, sw), p), p)

\* The whole rule list (app.py 189-238), in the order of the source.
rules(needs0, p, sw) ==
    rules_profil(
        rules_social(
            rules_opportunites(
                rules_menaces(
                    rules_faiblesses(needs0, p, sw), p, sw), p, sw), p), p)

\* Mutant of dedup_loop: the key is the description alone.
RECURSIVE dedup_loop_besoin(_, _, _, _)
dedup_loop_besoin(list, i, uniq, seen) ==
    IF i > Len(list)
    THEN uniq
    ELSE LET n == list[i]
             key == n.besoin
         IN  IF key \notin seen
             THEN dedup_loop_besoin(list, i + 1, Append(uniq, n), seen \cup {key})
             ELSE dedup_loop_besoin(list, i + 1, uniq, seen)

\* The loop of the deduplication (app.py 243-247) from position i on, with
\* the list `unique` and the set `seen` built so far.
RECURSIVE dedup_loop(_, _, _, _)
dedup_loop(list, i, uniq, seen) ==
    IF i > Len(list)
    THEN uniq
    ELSE LET n == list[i]
             key == << n.besoin, n.service >>
         IN  IF key \notin seen
             THEN dedup_loop(list, i + 1, Append(uniq, n), seen \cup {key})
             ELSE dedup_loop(list, i + 1, uniq, seen)

\* Mutant of dedup: `unique` starts as the list itself instead of empty.
dedup_seeded(list) == dedup_loop(list, 1, list, {})

\* Deduplication & consolidation (app.py 240-248): unique = [], seen = set(),
\* then the loop over the whole list.
dedup(list) == dedup_loop(list, 1, << >>, {})

\* detect_needs creates `needs` empty on every call (line 177).
detect_needs(p, sw) == dedup(rules(<< >>, p, sw))

(***************************************************************************)
(* Profiles.  The rules read each categorical field only through the       *)
(* comparisons of lines 129-172 and 222-237; every pool below holds a      *)
(* value on each side of each comparison.  nom, notes and                  *)
(* succession_envisagee are read by no rule; nb_banques is read by         *)
(* detect_needs alone (line 233) and risques_juridiques by                 *)
(* swot_from_profile alone (line 163).                                     *)
(***************************************************************************)
\* nb_banques ranges over 1..MaxBanques (the widget allows 0..20 and starts
\* at 1, line 315; the only test is nb_banques > 1, line 233)
MaxBanques == 2

SecteurPool == { SECTEURS[1], SECTEURS[3] }
TaillePool == { TAILLE[2], TAILLE[3], TAILLE[5] }
DigitalPool == Range(DIGITAL)
ImpactEnvPool == { IMPACT_ENV[1], IMPACT_ENV[3] }
ExpoPool == { EXPO_INTERNATIONAL[1], EXPO_INTERNATIONAL[3] }
DependancePool == { DEPENDANCE_CLIENT[2], DEPENDANCE_CLIENT[3] }
CroissancePool == { CROISSANCE[2], CROISSANCE[3] }
MargePool == Range(MARGE)
RetraitePool == { HORIZON_RETRAITE[1], HORIZON_RETRAITE[2] }

\* The ClientProfile records (app.py 73-95) over the pools, with the given
\* values of nb_banques and risques_juridiques.
ProfilePool(banques, juridiques) ==
    [ nom : {"Client DEMO"},
      secteur : SecteurPool,
      taille : TaillePool,
      digital : DigitalPool,
      impact_env : ImpactEnvPool,
      rse_sensible : BOOLEAN,
      presence_cadres : BOOLEAN,
      exposition_internationale : ExpoPool,
      dependance_client : DependancePool,
      croissance : CroissancePool,
      marge : MargePool,
      tresorerie_tendue : BOOLEAN,
      reporting_mensuel : BOOLEAN,
      nb_banques : banques,
      proche_retraite : RetraitePool,
      succession_envisagee : {FALSE},
      patrimoine_dirigeant_important : BOOLEAN,
      btp_specifique : BOOLEAN,
      ecommerce_plateformes : BOOLEAN,
      risques_juridiques : juridiques,
      notes : {""} ]

\* The profiles of a whole diagnostic run, and those of a classification.
Profiles == ProfilePool(1..MaxBanques, {FALSE})

ClassifyProfiles == ProfilePool({1}, BOOLEAN)

\* The values of the sidebar widgets before any interaction (app.py 302-322).
DefaultProfile ==
    [ nom |-> "Client DEMO",
      secteur |-> SECTEURS[3],
      taille |-> TAILLE[2],
      digital |-> DIGITAL[2],
      impact_env |-> IMPACT_ENV[1],
      rse_sensible |-> FALSE,
      presence_cadres |-> FALSE,
      exposition_internationale |-> EXPO_INTERNATIONAL[1],
      dependance_client |-> DEPENDANCE_CLIENT[1],
      croissance |-> "Stable",
      marge |-> "Correcte",
      tresorerie_tendue |-> FALSE,
      reporting_mensuel |-> FALSE,
      nb_banques |-> 1,
      proche_retraite |-> HORIZON_RETRAITE[1],
      succession_envisagee |-> FALSE,
      patrimoine_dirigeant_important |-> FALSE,
      btp_specifique |-> FALSE,
      ecommerce_plateformes |-> FALSE,
      risques_juridiques |-> FALSE,
      notes |-> "" ]

NoArchive == << >>
NoRun == << >>

\* The variables a specification does not use keep these values.
IdleDedup == unique = << >> /\ refiltered = << >>
IdleRuns == first = NoRun /\ runs = 0
IdleNotify ==
    /\ recipients = DEFAULT_RECIPIENTS
    /\ edited = << >>
    /\ emails = << >>
    /\ archive = NoArchive

(***************************************************************************)
(* Spec: one diagnostic run of the script on any profile (app.py 330-394): *)
(* the profile is read from the widgets, classified, and its needs are     *)
(* derived.                                                                *)
(***************************************************************************)
Init ==
    /\ profile \in Profiles
    /\ swot = EmptySwot
    /\ needs = << >>
    /\ pc = "start"
    /\ IdleDedup /\ IdleRuns /\ IdleNotify

\* swot = swot_from_profile(profile); needs = detect_needs(profile, swot)
\* (app.py 358, 394)
Diagnostic ==
    /\ pc = "start"
    /\ LET sw == swot_from_profile(profile)
       IN  /\ swot' = sw
           /\ needs' = detect_needs(profile, sw)
    /\ pc' = "done"
    /\ UNCHANGED << profile, unique, refiltered, first, runs, recipients, edited, emails, archive >>

Next == Diagnostic

Spec == Init /\ [][Next]_vars

(***************************************************************************)
(* SpecClassify: the classification alone (app.py 358), on any profile.    *)
(***************************************************************************)
InitClassify ==
    /\ profile \in ClassifyProfiles
    /\ swot = EmptySwot
    /\ needs = << >>
    /\ pc = "start"
    /\ IdleDedup /\ IdleRuns /\ IdleNotify

\* swot = swot_from_profile(profile)
Classify ==
    /\ pc = "start"
    /\ swot' = swot_from_profile(profile)
    /\ pc' = "classified"
    /\ UNCHANGED << profile, needs, unique, refiltered, first, runs,
                    recipients, edited, emails, archive >>

NextClassify == Classify

SpecClassify == InitClassify /\ [][NextClassify]_vars

(***************************************************************************)
(* Properties of one diagnostic run.                                       *)
(***************************************************************************)
ServiceNames == { SERVICES[k] : k \in Range(SERVICE_KEYS) }

SizeAtLeast11(p) == \E i \in 3..5 : p.taille = TAILLE[i]

TextsOf(obs) == [ i \in DOMAIN obs |-> obs[i].texte ]

TypesOf(obs) == { obs[i].type : i \in DOMAIN obs }

\* The second components of the rows of a table whose first component holds.
Fired(table) ==
    LET sel == SelectSeq(table, LAMBDA r : r[1])
    IN  [ i \in DOMAIN sel |-> sel[i][2] ]

\* The descriptions of the needs the claims name.
B_DIGITAL == "Cartographie & plan de digitalisation"
B_TABLEAUX == "Mise en place de tableaux de bord mensuels"
B_PRICING == "Etude prix de revient & politique de pricing"
B_CASH == "Previsionnel & cash management"
B_RSE == "Diagnostic RSE & plan d'actions"
B_DIVERSIFICATION == "Plan de diversification commerciale"
B_CHANTIERS == "Mise en place suivi chantiers / DGD"
B_TVA == "Revue TVA (OSS/IOSS) & procedures"
B_AUDIT_SOCIAL == "Audit social & mise en conformite (CSE, DUERP...)"

Besoins == { needs[i].besoin : i \in DOMAIN needs }

\* C2: after a run, every Need has a department among the nine display names
\* of SERVICES, a priority among PRIORITES, a deadline among ECHEANCES and an
\* integer impact from 1 to 5.
C2_NeedsWellFormed ==
    pc = "done" =>
        \A i \in DOMAIN needs :
            /\ needs[i].service \in ServiceNames
            /\ needs[i].priorite \in Range(PRIORITES)
            /\ needs[i].echeance \in Range(ECHEANCES)
            /\ needs[i].impact \in 1..5

\* A run whose needs show the three priorities and the three deadlines.
C2_Witness ==
    /\ pc = "done"
    /\ { needs[i].priorite : i \in DOMAIN needs } = Range(PRIORITES)
    /\ { needs[i].echeance : i \in DOMAIN needs } = Range(ECHEANCES)

\* The classifier rules as the claim lists them: condition, observation.
StrengthRules(p) ==
    << << p.digital = DIGITAL[3], T_DIGITAL_AVANCEE >>,
       << p.reporting_mensuel, T_REPORTING_OK >>,
       << p.marge = MARGE[3], T_MARGE_CONFORTABLE >>,
       << p.croissance = CROISSANCE[3], T_CROISSANCE >> >>

WeaknessRules(p) ==
    << << p.digital = DIGITAL[1], T_DIGITAL_FAIBLE >>,
       << ~p.reporting_mensuel, T_SANS_REPORTING >>,
       << p.marge = MARGE[1], T_MARGE_FAIBLE >>,
       << p.tresorerie_tendue, T_TRESORERIE >> >>

OpportunityRules(p) ==
    << << p.proche_retraite # HORIZON_RETRAITE[1], T_TRANSMISSION >>,
       << p.patrimoine_dirigeant_important, T_PATRIMOINE >>,
       << p.rse_sensible, T_RSE >>,
       << p.exposition_internationale # EXPO_INTERNATIONAL[1], T_EXPORT >> >>

ThreatRules(p) ==
    << << p.impact_env = IMPACT_ENV[3], T_ENVIRONNEMENT >>,
       << p.dependance_client = DEPENDANCE_CLIENT[3], T_DEPENDANCE >>,
       << p.risques_juridiques, T_JURIDIQUE >>,
       << SizeAtLeast11(p) /\ ~p.presence_cadres, T_SOCIAL >>,
       << p.secteur = SECTEURS[1] \/ p.btp_specifique, T_BTP >>,
       << p.ecommerce_plateformes, T_MARKETPLACE >> >>

\* C3: each category of the classification is exactly the observations of
\* the rules of that category that hold on the profile, in the declared
\* order, each once, and is empty when none holds.
C3_ClassificationIsRuleList ==
    pc = "classified" =>
        /\ TextsOf(swot.Forces) = Fired(StrengthRules(profile))
        /\ TextsOf(swot.Faiblesses) = Fired(WeaknessRules(profile))
        /\ TextsOf(swot.Opportunites) = Fired(OpportunityRules(profile))
        /\ TextsOf(swot.Menaces) = Fired(ThreatRules(profile))
        /\ TypesOf(swot.Forces) \subseteq {"Force"}
        /\ TypesOf(swot.Faiblesses) \subseteq {"Faiblesse"}
        /\ TypesOf(swot.Opportunites) \subseteq {"Opportunite"}
        /\ TypesOf(swot.Menaces) \subseteq {"Menace"}

\* A classification with no strength, the four weaknesses, two opportunities
\* and the six threats.
C3_Witness ==
    /\ pc = "classified"
    /\ swot.Forces = << >>
    /\ Len(swot.Faiblesses) = 4
    /\ Len(swot.Menaces) = 6
    /\ Len(swot.Opportunites) = 2

\* The 17 rows of the need table: condition on the profile, then
\* department key, priority, deadline, impact.
NeedTable(p) ==
    << << p.digital = DIGITAL[1],
          << "digital", "Moyenne", ECHEANCES[2], 3 >> >>,
       << ~p.reporting_mensuel,
          << "gestion", "Haute", ECHEANCES[1], 4 >> >>,
       << p.marge = MARGE[1],
          << "eco_strat", "Haute", ECHEANCES[1], 5 >> >>,
       << p.tresorerie_tendue,
          << "gestion", "Haute", ECHEANCES[1], 5 >> >>,
       << p.impact_env = IMPACT_ENV[3] \/ p.rse_sensible,
          << "rse", "Moyenne", ECHEANCES[2], 3 >> >>,
       << p.dependance_client = DEPENDANCE_CLIENT[3],
          << "eco_strat", "Moyenne", ECHEANCES[2], 4 >> >>,
       << p.secteur = SECTEURS[1] \/ p.btp_specifique,
          << "btp", "Moyenne", ECHEANCES[2], 3 >> >>,
       << p.ecommerce_plateformes,
          << "international", "Haute", ECHEANCES[1], 4 >> >>,
       << p.proche_retraite # HORIZON_RETRAITE[1],
          << "patrimonial", "Moyenne", ECHEANCES[2], 3 >> >>,
       << p.patrimoine_dirigeant_important,
          << "patrimonial", "Moyenne", ECHEANCES[2], 3 >> >>,
       << p.exposition_internationale # EXPO_INTERNATIONAL[1],
          << "international", "Moyenne", ECHEANCES[2], 3 >> >>,
       << p.rse_sensible,
          << "rse", "Basse", ECHEANCES[3], 2 >> >>,
       << SizeAtLeast11(p) /\ ~p.presence_cadres,
          << "social", "Haute", ECHEANCES[1], 4 >> >>,
       << SizeAtLeast11(p) /\ p.presence_cadres,
          << "social", "Moyenne", ECHEANCES[2], 3 >> >>,
       << p.ecommerce_plateformes \/ p.exposition_internationale # EXPO_INTERNATIONAL[1],
          << "fiscal", "Moyenne", ECHEANCES[2], 3 >> >>,
       << (p.nb_banques > 1 /\ ~p.reporting_mensuel) \/ p.tresorerie_tendue,
          << "digital", "Moyenne", ECHEANCES[2], 3 >> >>,
       << p.croissance \in {CROISSANCE[1], CROISSANCE[2]} /\ p.marge # MARGE[3],
          << "eco_strat", "Moyenne", ECHEANCES[2], 4 >> >> >>

\* C4: the needs of a run are the rows of the table whose condition holds on
\* the profile, one Need per row with the row's department, priority,
\* deadline and impact, in the order of the table.
C4_NeedsAreTableRows ==
    pc = "done" =>
        LET rows == Fired(NeedTable(profile))
        IN  /\ Len(needs) = Len(rows)
            /\ \A i \in DOMAIN needs :
                   << needs[i].service, needs[i].priorite, needs[i].echeance, needs[i].impact >>
                     = << SERVICES[rows[i][1]], rows[i][2], rows[i][3], rows[i][4] >>

\* A run in which sixteen rows match (the two social rows exclude each other).
C4_Witness == pc = "done" /\ Len(needs) = 16

\* C5, as claimed: with an empty Threats sequence the needs hold none of the
\* four needs of the rows conditioned on a Threat observation.
C5_NoThreatNoThreatNeed ==
    (pc = "done" /\ swot.Menaces = << >>) =>
        Besoins \cap {B_RSE, B_DIVERSIFICATION, B_CHANTIERS, B_TVA} = {}

\* C5, amended: with an empty Threats sequence the needs hold none of the
\* three needs of the rows conditioned on a Threat observation alone, and
\* hold the RSE diagnostic exactly when the profile is RSE-sensitive.
C5_NoThreatOnlyRseFlagNeed ==
    (pc = "done" /\ swot.Menaces = << >>) =>
        /\ Besoins \cap {B_DIVERSIFICATION, B_CHANTIERS, B_TVA} = {}
        /\ B_RSE \in Besoins <=> profile.rse_sensible

\* A run with no threat on an RSE-sensitive profile.
C5_Witness ==
    /\ pc = "done"
    /\ swot.Menaces = << >>
    /\ profile.rse_sensible
    /\ needs # << >>

HauteImmediat5(n) ==
    n.priorite = PRIORITES[1] /\ n.echeance = ECHEANCES[1] /\ n.impact = 5

\* C6: with no digital tooling, no monthly reporting, a low margin and a
\* strained cash position, Weaknesses is the four observations digital,
\* reporting, margin, cash in that order, and the needs hold digital plan,
\* dashboards, pricing study and cash management in that relative order, the
\* last two at priority Haute, deadline immediate, impact 5.
C6_FourWeaknesses ==
    ( /\ pc = "done"
      /\ profile.digital = DIGITAL[1]
      /\ ~profile.reporting_mensuel
      /\ profile.marge = MARGE[1]
      /\ profile.tresorerie_tendue ) =>
        /\ TextsOf(swot.Faiblesses)
             = << T_DIGITAL_FAIBLE, T_SANS_REPORTING, T_MARGE_FAIBLE, T_TRESORERIE >>
        /\ \E i \in DOMAIN needs :
              /\ needs[i].besoin = B_DIGITAL
              /\ \E j \in DOMAIN needs :
                    /\ i < j
                    /\ needs[j].besoin = B_TABLEAUX
                    /\ \E k \in DOMAIN needs :
                          /\ j < k
                          /\ needs[k].besoin = B_PRICING
                          /\ HauteImmediat5(needs[k])
                          /\ \E l \in DOMAIN needs :
                                /\ k < l
                                /\ needs[l].besoin = B_CASH
                                /\ HauteImmediat5(needs[l])

\* A run on such a profile.
C6_Witness ==
    /\ pc = "done"
    /\ profile.digital = DIGITAL[1]
    /\ ~profile.reporting_mensuel
    /\ profile.marge = MARGE[1]
    /\ profile.tresorerie_tendue
    /\ Len(needs) >= 4

SocialNeeds == { i \in DOMAIN needs : needs[i].service = SERVICES.social }

\* C7: the needs hold at most one need of the department social; from 11
\* employees on and without structured HR, Threats holds the observation on
\* social obligations and the one social need is the social audit, at
\* priority Haute, deadline immediate, impact 4.
C7_OneSocialNeed ==
    pc = "done" =>
        /\ Cardinality(SocialNeeds) <= 1
        /\ (SizeAtLeast11(profile) /\ ~profile.presence_cadres) =>
              /\ T_SOCIAL \in Range(TextsOf(swot.Menaces))
              /\ \E i \in DOMAIN needs :
                    /\ SocialNeeds = {i}
                    /\ needs[i].besoin = B_AUDIT_SOCIAL
                    /\ needs[i].priorite = PRIORITES[1]
                    /\ needs[i].echeance = ECHEANCES[1]
                    /\ needs[i].impact = 4

\* A run on a company of 250 employees or more without structured HR.
C7_Witness ==
    /\ pc = "done"
    /\ profile.taille = TAILLE[5]
    /\ ~profile.presence_cadres
    /\ Cardinality(SocialNeeds) = 1

(***************************************************************************)
(* SpecAnySwot: detect_needs called on a profile and on any classification *)
(* whatever, built one observation at a time: any text of the model in any *)
(* of the three categories detect_needs reads, repeated or not.            *)
(***************************************************************************)
\* At most MaxObs observations in the classification passed in.
MaxObs == 2

AnyTexts ==
    { T_DIGITAL_FAIBLE, T_SANS_REPORTING, T_MARGE_FAIBLE, T_TRESORERIE,
      T_ENVIRONNEMENT, T_DEPENDANCE, T_JURIDIQUE, T_BTP, T_MARKETPLACE,
      T_TRANSMISSION, T_PATRIMOINE, T_RSE, T_EXPORT,
      N_PATRIMOINE, N_EXPORT, N_RSE }

\* The fields detect_needs reads from the profile itself.
AnyProfiles ==
    { [DefaultProfile EXCEPT !.rse_sensible = r, !.taille = t,
                             !.presence_cadres = c, !.tresorerie_tendue = tr,
                             !.ecommerce_plateformes = e]
        : r \in BOOLEAN, t \in {TAILLE[2], TAILLE[3]}, c \in BOOLEAN,
          tr \in BOOLEAN, e \in BOOLEAN }

NbObs(sw) == Len(sw.Forces) + Len(sw.Faiblesses) + Len(sw.Opportunites) + Len(sw.Menaces)

InitAnySwot ==
    /\ profile \in AnyProfiles
    /\ swot = EmptySwot
    /\ needs = << >>
    /\ pc = "start"
    /\ IdleDedup /\ IdleRuns /\ IdleNotify

\* The caller puts one more observation into the classification.
AddWeakness ==
    /\ pc = "start"
    /\ NbObs(swot) < MaxObs
    /\ \E t \in AnyTexts :
          swot' = [swot EXCEPT !.Faiblesses = Append(@, weakness(t))]
    /\ UNCHANGED << profile, needs, pc, unique, refiltered, first, runs,
                    recipients, edited, emails, archive >>

AddOpportunity ==
    /\ pc = "start"
    /\ NbObs(swot) < MaxObs
    /\ \E t \in AnyTexts :
          swot' = [swot EXCEPT !.Opportunites = Append(@, opportunity(t))]
    /\ UNCHANGED << profile, needs, pc, unique, refiltered, first, runs,
                    recipients, edited, emails, archive >>

AddThreat ==
    /\ pc = "start"
    /\ NbObs(swot) < MaxObs
    /\ \E t \in AnyTexts :
          swot' = [swot EXCEPT !.Menaces = Append(@, threat(t))]
    /\ UNCHANGED << profile, needs, pc, unique, refiltered, first, runs,
                    recipients, edited, emails, archive >>

\* needs = detect_needs(profile, swot)
DeriveAny ==
    /\ pc = "start"
    /\ needs' = detect_needs(profile, swot)
    /\ pc' = "done"
    /\ UNCHANGED << profile, swot, unique, refiltered, first, runs,
                    recipients, edited, emails, archive >>

NextAnySwot == AddWeakness \/ AddOpportunity \/ AddThreat \/ DeriveAny

SpecAnySwot == InitAnySwot /\ [][NextAnySwot]_vars

Key(n) == << n.besoin, n.service >>

\* C1: whatever the profile and the classification passed in, no two entries
\* of the list detect_needs returns have the same (description, department).
C1_NoDuplicatePair ==
    pc = "done" =>
        \A i, j \in DOMAIN needs : i # j => Key(needs[i]) # Key(needs[j])

\* A call on a classification no run of swot_from_profile produces (the same
\* weakness twice), which returns several needs.
C1_Witness ==
    /\ pc = "done"
    /\ swot.Faiblesses = << weakness(T_TRESORERIE), weakness(T_TRESORERIE) >>
    /\ Len(needs) >= 4

\* The conditions of the 17 rules of detect_needs on a profile and on the
\* classification passed in, in the order of the code.
RuleConditions(p, sw) ==
    LET fb == { sw.Faiblesses[i].texte : i \in DOMAIN sw.Faiblesses }
        m == { sw.Menaces[i].texte : i \in DOMAIN sw.Menaces }
        opp(sub) == \E i \in DOMAIN sw.Opportunites :
                        Contains(sub, sw.Opportunites[i].texte)
    IN  << T_DIGITAL_FAIBLE \in fb,
           T_SANS_REPORTING \in fb,
           T_MARGE_FAIBLE \in fb,
           T_TRESORERIE \in fb,
           T_ENVIRONNEMENT \in m \/ p.rse_sensible,
           T_DEPENDANCE \in m,
           T_BTP \in m,
           T_MARKETPLACE \in m,
           opp(N_TRANSMISSION),
           opp(N_PATRIMOINE),
           opp(N_EXPORT),
           opp(N_RSE),
           SizeAtLeast11(p) /\ ~p.presence_cadres,
           SizeAtLeast11(p) /\ p.presence_cadres,
           p.ecommerce_plateformes \/ p.exposition_internationale # EXPO_INTERNATIONAL[1],
           (p.nb_banques > 1 /\ ~p.reporting_mensuel) \/ p.tresorerie_tendue,
           p.croissance \in {CROISSANCE[1], CROISSANCE[2]} /\ p.marge # MARGE[3] >>

NbMatched(p, sw) ==
    LET conds == RuleConditions(p, sw)
    IN  Len(SelectSeq(conds, LAMBDA c : c))

\* C11: whatever the profile and the classification passed in, the list the
\* rules of detect_needs build has no two entries with the same (description,
\* department), so the deduplication removes nothing: the list returned is
\* the list built, and its length is the number of rules that matched.
C11_RulesListHasNoDuplicate ==
    pc = "done" =>
        LET built == rules(<< >>, profile, swot)
        IN  /\ needs = built
            /\ \A i, j \in DOMAIN needs : i < j => Key(built[i]) # Key(built[j])
            /\ Len(needs) = NbMatched(profile, swot)

\* A call in which two opportunities match the same rule (one is the text of
\* the classifier, the other the text the rule searches for) and two rules
\* or more matched.
C11_Witness ==
    /\ pc = "done"
    /\ swot.Opportunites = << opportunity(T_PATRIMOINE), opportunity(N_PATRIMOINE) >>
    /\ Len(needs) = NbMatched(profile, swot)
    /\ Len(needs) >= 2

(***************************************************************************)
(* SpecDedup: the deduplication of detect_needs on any list of Needs, then *)
(* on its own result.                                                      *)
(***************************************************************************)
\* Lists of at most MaxLen Needs.
MaxLen == 3

NeedPool ==
    { add(<< >>, b, k, "Moyenne", "6-12 mois", i, "")[1] :
        b \in {"Tableaux de bord", "Cash management"},
        k \in {"gestion", "digital"},
        i \in {3, 4} }

InitDedup ==
    /\ needs \in UNION { [1..n -> NeedPool] : n \in 0..MaxLen }
    /\ unique = << >>
    /\ refiltered = << >>
    /\ pc = "start"
    /\ profile = DefaultProfile
    /\ swot = EmptySwot
    /\ IdleRuns /\ IdleNotify

\* unique = the deduplication of needs
Filter ==
    /\ pc = "start"
    /\ unique' = dedup(needs)
    /\ pc' = "filtered"
    /\ UNCHANGED << profile, swot, needs, refiltered, first, runs,
                    recipients, edited, emails, archive >>

\* the deduplication again, on its result
Refilter ==
    /\ pc = "filtered"
    /\ refiltered' = dedup(unique)
    /\ pc' = "refiltered"
    /\ UNCHANGED << profile, swot, needs, unique, first, runs,
                    recipients, edited, emails, archive >>

NextDedup == Filter \/ Refilter

SpecDedup == InitDedup /\ [][NextDedup]_vars

\* The positions of a list that hold the first occurrence of their pair.
FirstPositions(list) ==
    { i \in DOMAIN list : \A j \in 1..(i - 1) : Key(list[j]) # Key(list[i]) }

\* C8: the deduplication keeps, in the order of the list, exactly the first
\* occurrence of each (description, department) pair, and run again on its
\* own result it returns that result.
C8_DedupStableIdempotent ==
    /\ pc \in {"filtered", "refiltered"} =>
          LET first_pos == FirstPositions(needs)
          IN  /\ Len(unique) = Cardinality(first_pos)
              /\ \A i \in first_pos :
                    unique[Cardinality({ j \in first_pos : j <= i })] = needs[i]
    /\ pc = "refiltered" => refiltered = unique

\* A list of three Needs, the third repeating the pair of the first with
\* another impact, filtered twice.
C8_Witness ==
    /\ pc = "refiltered"
    /\ Len(needs) = 3
    /\ Len(unique) = 2
    /\ Key(needs[3]) = Key(needs[1])
    /\ needs[3] # needs[1]

(***************************************************************************)
(* SpecRuns: the core run again and again, on one profile after another    *)
(* (the script is run once per interaction).                               *)
(***************************************************************************)
\* At most MaxRuns runs.
MaxRuns == 3

RunProfiles ==
    { [DefaultProfile EXCEPT !.digital = d, !.tresorerie_tendue = tr,
                             !.rse_sensible = r, !.taille = t,
                             !.ecommerce_plateformes = e]
        : d \in {DIGITAL[1], DIGITAL[3]}, tr \in BOOLEAN, r \in BOOLEAN,
          t \in {TAILLE[2], TAILLE[4]}, e \in BOOLEAN }

InitRuns ==
    /\ profile = DefaultProfile
    /\ swot = EmptySwot
    /\ needs = << >>
    /\ pc = "start"
    /\ first = NoRun
    /\ runs = 0
    /\ IdleDedup /\ IdleNotify

\* One run of the core on profile p (app.py 330, 358, 394).  `first` records
\* the first run, and whether a run on another profile has followed it.
Run(p) ==
    /\ runs < MaxRuns
    /\ profile' = p
    /\ LET sw == swot_from_profile(p)
           nd == detect_needs(p, sw)
       IN  /\ swot' = sw
           /\ needs' = nd
           /\ first' = IF first = NoRun
                       THEN << [profile |-> p, swot |-> sw, needs |-> nd, other |-> FALSE] >>
                       ELSE << [first[1] EXCEPT !.other = @ \/ p # first[1].profile] >>
    /\ runs' = runs + 1
    /\ pc' = "done"
    /\ UNCHANGED << unique, refiltered, recipients, edited, emails, archive >>

NextRuns == \E p \in RunProfiles : Run(p)

SpecRuns == InitRuns /\ [][NextRuns]_vars

VariantBases ==
    { [DefaultProfile EXCEPT !.secteur = s, !.dependance_client = d,
                             !.marge = m, !.rse_sensible = r, !.taille = t]
        : s \in SecteurPool, d \in DependancePool,
          m \in {MARGE[1], MARGE[3]}, r \in BOOLEAN,
          t \in {TAILLE[2], TAILLE[4]} }

\* What the name and the notes fields are given.
NomInputs == { "Client DEMO", "SARL Dupont" }

NotesInputs == { "", "Litige prud'homal en cours, succession a preparer" }

InitVariants ==
    /\ profile \in VariantBases
    /\ swot = EmptySwot
    /\ needs = << >>
    /\ pc = "start"
    /\ IdleDedup /\ IdleRuns /\ IdleNotify

\* One run of the core (app.py 330, 358, 394) after the user has set the
\* four fields; `first` records the first run, and whether a run on another
\* profile has followed it.
RunVariant ==
    \E nom \in NomInputs, notes \in NotesInputs,
       succession_envisagee \in BOOLEAN, risques_juridiques \in BOOLEAN :
        LET p == [profile EXCEPT !.nom = nom, !.notes = notes,
                                 !.succession_envisagee = succession_envisagee,
                                 !.risques_juridiques = risques_juridiques]
            sw == swot_from_profile(p)
            nd == detect_needs(p, sw)
        IN  /\ profile' = p
            /\ swot' = sw
            /\ needs' = nd
            /\ first' = IF first = NoRun
                        THEN << [profile |-> p, swot |-> sw, needs |-> nd, other |-> FALSE] >>
                        ELSE << [first[1] EXCEPT !.other = @ \/ p # first[1].profile] >>
            /\ pc' = "done"
            /\ UNCHANGED << unique, refiltered, runs, recipients, edited, emails, archive >>

NextVariants == RunVariant

SpecVariants == InitVariants /\ [][NextVariants]_vars

\* p and q differ at most in the four fields.
DifferOnlyInFreeFields(p, q) ==
    [p EXCEPT !.nom = q.nom, !.notes = q.notes,
              !.succession_envisagee = q.succession_envisagee,
              !.risques_juridiques = q.risques_juridiques] = q

NotJuridique(obs) == SelectSeq(obs, LAMBDA x : x.texte # T_JURIDIQUE)

\* C12: two profiles that differ only in the name, the notes, the
\* succession flag and the legal-risk flag have the same need list; the
\* legal-risk flag changes nothing but the presence of the legal-risk
\* observation in the Threats, from which no need is derived.
C12_NeedsIgnoreFreeFields ==
    (first # NoRun /\ DifferOnlyInFreeFields(profile, first[1].profile)) =>
        /\ needs = first[1].needs
        /\ swot.Forces = first[1].swot.Forces
        /\ swot.Faiblesses = first[1].swot.Faiblesses
        /\ swot.Opportunites = first[1].swot.Opportunites
        /\ NotJuridique(swot.Menaces) = NotJuridique(first[1].swot.Menaces)
        /\ (T_JURIDIQUE \in textes(swot.Menaces)) = profile.risques_juridiques

\* A run with the legal-risk observation among several threats, after a
\* first run without it on a profile with another name, other notes and no
\* succession project, both with three needs or more.
C12_Witness ==
    /\ first # NoRun
    /\ first[1].other
    /\ profile.nom # first[1].profile.nom
    /\ profile.notes # first[1].profile.notes
    /\ profile.succession_envisagee /\ ~first[1].profile.succession_envisagee
    /\ profile.risques_juridiques /\ ~first[1].profile.risques_juridiques
    /\ Len(swot.Menaces) >= 3
    /\ Len(first[1].swot.Menaces) = Len(swot.Menaces) - 1
    /\ Len(needs) >= 3

(***************************************************************************)
(* The need table and the e-mail block (app.py 250-291, 397, 444-465).     *)
(***************************************************************************)
\* needs_to_dataframe (app.py 250-257): one row per Need, "Envoyer ?" ticked;
\* no Need gives the empty frame.
needs_to_dataframe(nds) ==
    [ i \in DOMAIN nds |->
        [ besoin        |-> nds[i].besoin,
          service       |-> nds[i].service,
          priorite      |-> nds[i].priorite,
          echeance      |-> nds[i].echeance,
          impact        |-> nds[i].impact,
          justification |-> nds[i].justification,
          envoyer       |-> TRUE ] ]

\* Mutant of to_send: the filter on "Envoyer ?" is forgotten.
to_send_all(ed) == ed

\* to_send (app.py 446): the ticked rows, or the frame itself when empty.
to_send(ed) == IF ed # << >> THEN SelectSeq(ed, LAMBDA r : r.envoyer = TRUE) ELSE ed

\* The loop of lines 453-457 from the i-th item of SERVICES on: << >> is
\* None, << a >> the address found at the first label equal to `service`.
RECURSIVE find_email(_, _, _)
find_email(recips, service, i) ==
    IF i > Len(SERVICE_KEYS)
    THEN << >>
    ELSE IF SERVICES[SERVICE_KEYS[i]] = service
         THEN << recips[SERVICE_KEYS[i]] >>
         ELSE find_email(recips, service, i + 1)

FALLBACK == "info@cabinet.com"

\* Lines 453-459: `not svc_email` holds of None and of the empty string.
svc_email_for(recips, service) ==
    LET svc_email == find_email(recips, service, 1)
    IN  IF svc_email = << >> \/ svc_email[1] = ""
        THEN FALLBACK
        ELSE svc_email[1]

\* make_email (app.py 259-281): the fields the subject and the body are
\* formatted from.
make_email(service_email, client_name, row) ==
    [ to      |-> service_email,
      subject |-> << "[DIAG]", client_name, row.besoin, row.priorite, row.echeance >>,
      body    |-> << row.service, client_name, row.besoin, row.priorite, row.echeance,
                     row.impact, row.justification >> ]

\* client_name.replace(' ', '_') (app.py 288), on the names of the model.
Underscored(client_name) ==
    CASE client_name = "Client DEMO" -> "Client_DEMO"
      [] OTHER -> client_name

\* zip_emails (app.py 283-291): one numbered file per draft.
zip_emails(ems, client_name) ==
    [ i \in DOMAIN ems |->
        [ filename |-> << i, Underscored(client_name), ".eml" >>, eml |-> ems[i] ] ]

\* The drafts of lines 450-461.
build_emails(ed, recips, client_name) ==
    LET rows == to_send(ed)
    IN  [ i \in DOMAIN rows |->
            make_email(svc_email_for(recips, rows[i].service), client_name, rows[i]) ]

\* Lines 446-465 on the table `ed` : nothing when no row is to send, else the
\* drafts and their archive.
EmailBlock(ed, recips, client_name) ==
    IF to_send(ed) = << >>
    THEN [ emails |-> << >>, archive |-> NoArchive ]
    ELSE LET ems == build_emails(ed, recips, client_name)
         IN  [ emails |-> ems, archive |-> << zip_emails(ems, client_name) >> ]

(***************************************************************************)
(* SpecNotify: the script has run on a profile; the user unticks rows,     *)
(* edits the department of a row, or an address of the sidebar, and the    *)
(* script runs again on every interaction.                                 *)
(***************************************************************************)
\* At most MaxRecipientEdits addresses of the sidebar differ from the default.
MaxRecipientEdits == 1

\* No need, two needs, three needs.
NotifyProfiles ==
    { [DefaultProfile EXCEPT !.reporting_mensuel = TRUE, !.croissance = CROISSANCE[3]],
      DefaultProfile,
      [DefaultProfile EXCEPT !.taille = TAILLE[3]] }

\* What the user may type into a department cell, and into an address.
ServiceCells == { SERVICES.gestion, SERVICES.fiscal, "Direction" }
AddressInputs == { "", "accueil@cabinet.com" }

InitNotify ==
    /\ profile \in NotifyProfiles
    /\ swot = swot_from_profile(profile)
    /\ needs = detect_needs(profile, swot)
    /\ recipients = DEFAULT_RECIPIENTS
    /\ edited = needs_to_dataframe(needs)
    /\ emails = EmailBlock(edited, recipients, profile.nom).emails
    /\ archive = EmailBlock(edited, recipients, profile.nom).archive
    /\ pc = "shown"
    /\ IdleDedup /\ IdleRuns

\* The rest of the script run after an interaction: the e-mail block.
Rerun(ed, recips) ==
    /\ emails' = EmailBlock(ed, recips, profile.nom).emails
    /\ archive' = EmailBlock(ed, recips, profile.nom).archive
    /\ UNCHANGED << profile, swot, needs, pc, unique, refiltered, first, runs >>

\* The user ticks or unticks "Envoyer ?" of row i (app.py 405).
ToggleEnvoyer ==
    \E i \in DOMAIN edited :
        /\ edited' = [edited EXCEPT ![i].envoyer = ~@]
        /\ recipients' = recipients
        /\ Rerun(edited', recipients)

\* The user types into the department cell of row i (no column is disabled,
\* app.py 400).
EditService ==
    \E i \in DOMAIN edited, v \in ServiceCells :
        /\ edited' = [edited EXCEPT ![i].service = v]
        /\ recipients' = recipients
        /\ Rerun(edited', recipients)

\* The user types into the address of department k (app.py 328).
SetRecipient ==
    \E k \in Range(SERVICE_KEYS) : \E v \in AddressInputs \cup {DEFAULT_RECIPIENTS[k]} :
        /\ recipients' = [recipients EXCEPT ![k] = v]
        /\ Cardinality({ x \in Range(SERVICE_KEYS) : recipients'[x] # DEFAULT_RECIPIENTS[x] })
             <= MaxRecipientEdits
        /\ edited' = edited
        /\ Rerun(edited, recipients')

NextNotify == ToggleEnvoyer \/ EditService \/ SetRecipient

SpecNotify == InitNotify /\ [][NextNotify]_vars

\* The rows to send, and the department keys of a display name.
Marked == { i \in DOMAIN edited : edited[i].envoyer }

KeysOf(service) == { k \in Range(SERVICE_KEYS) : SERVICES[k] = service }

\* The draft of marked row i is the one at its rank among the marked rows.
DraftOf(i) == emails[Cardinality({ j \in Marked : j <= i })]

\* One draft per marked row, in the order of the table, none for the others;
\* no marked row: no draft and no archive.
OneDraftPerMarkedRow ==
    /\ Len(emails) = Cardinality(Marked)
    /\ \A i \in Marked :
          /\ DraftOf(i).body[1] = edited[i].service
          /\ DraftOf(i).body[3] = edited[i].besoin
    /\ Marked = {} => (emails = << >> /\ archive = NoArchive)
    /\ Marked # {} => (archive # NoArchive /\ Len(archive[1]) = Len(emails))

\* C10, as claimed: one draft per marked row and none for the others; its
\* recipient is the address configured for the department key whose display
\* name is the row's department, the fallback when no key matches; no marked
\* row gives no draft and no archive.
C10_RecipientIsConfigured ==
    /\ OneDraftPerMarkedRow
    /\ \A i \in Marked :
          IF KeysOf(edited[i].service) = {}
          THEN DraftOf(i).to = FALLBACK
          ELSE \E k \in KeysOf(edited[i].service) : DraftOf(i).to = recipients[k]

\* C10, amended: the recipient is the address configured for the matching
\* department key when that address is not empty, and the fallback when no
\* key matches or the configured address is empty.
C10_RecipientOrFallback ==
    /\ OneDraftPerMarkedRow
    /\ \A i \in Marked :
          IF KeysOf(edited[i].service) = {}
          THEN DraftOf(i).to = FALLBACK
          ELSE \E k \in KeysOf(edited[i].service) :
                  DraftOf(i).to = IF recipients[k] = "" THEN FALLBACK ELSE recipients[k]

\* Three rows: one unticked, one sent to the fallback because its department
\* matches no key, one sent to the fallback because the address of its
\* department is empty.
C10_Witness ==
    /\ Len(edited) = 3
    /\ Cardinality(Marked) = 2
    /\ \E i \in Marked : KeysOf(edited[i].service) = {} /\ DraftOf(i).to = FALLBACK
    /\ \E i \in Marked :
          /\ \E k \in KeysOf(edited[i].service) : recipients[k] = ""
          /\ DraftOf(i).to = FALLBACK

====
